---- MODULE Spec2Model ----
(***************************************************************************)
(* DocGen.ai: DocProcessor (src/make_doc.py).                              *)
(*                                                                         *)
(* A header text is abstracted to the sequence of its top-level segments:  *)
(* a segment is a span the function pattern matches ("function") or a span *)
(* the struct pattern matches ("struct").  The offset of a segment is its  *)
(* position in that sequence, and the identifier declared by the segment   *)
(* at offset p is written p.  Blocks, futures and offsets are numbered     *)
(* from 1: block i of the model is the block of original index i - 1.      *)
(*                                                                         *)
(* process_file runs one task per block on a ThreadPoolExecutor; the main  *)
(* thread, the pool's workers, every Transform call and every retry delay  *)
(* are separate steps of the model.                                        *)
(***************************************************************************)
EXTENDS Integers, Sequences, FiniteSets, TLC

\* ---------------------------------------------------------------- bounds
MaxBlocks  == 3    \* segments of the header of a single process_file call
MaxWorkers == 2    \* largest max_workers tried
MaxRetries == 2    \* largest max_retries tried
MaxFiles   == 2    \* files in the input directory
MaxDecls   == 2    \* segments of all headers of the input directory together
MaxFairBlocks == 2 \* segments of the header of a call checked for termination

\* ------------------------------------------------------------- constants
DefaultMaxWorkers == 10   \* DocProcessor.__init__, max_workers
DefaultMaxRetries == 3    \* DocProcessor.__init__, max_retries

\* what is at a path: no file, or a file with a content
NoFile        == [exists |-> FALSE, content |-> <<>>]
FileOf(text)  == [exists |-> TRUE, content |-> text]

VARIABLES
  max_workers,   \* self.max_workers
  max_retries,   \* self.max_retries
  files,         \* the input directory in traversal order: [stem, suffix, text]
  out,           \* the files under output_dir/files: path -> NoFile or FileOf(..)
  index,         \* content of output_dir/index.md, a sequence of lines
  pc,            \* position of the main thread
  fi,            \* position of make_doc's loop in the traversal
  visited,       \* what this run did with each file of the traversal
  blocks,        \* process_file: blocks
  task,          \* process_file: the future of each submitted block task:
                 \*   st: where the task is, calls: Transform calls made so
                 \*   far, ok: a Transform call has returned a text,
                 \*   gaveUp: whether and when the task gave up
  doneQ,         \* futures as_completed has still to yield, in yield order
  results,       \* process_file: results
  ret,           \* process_file: "running", or the value it returned
  reported,      \* the blocks line 148 has reported as failed
  outBefore      \* content of the output directory when process_file was called

vars == <<max_workers, max_retries, files, out, index, pc, fi, visited,
          blocks, task, doneQ, results, ret, reported, outBefore>>

cfgVars  == <<max_workers, max_retries, files>>
procVars == <<blocks, task, doneQ, results, reported, outBefore>>

\* --------------------------------------------------------------- helpers
Kinds    == {"function", "struct"}
Suffixes == {".h", ".hpp", ".c"}
Stems    == {"foo", "bar"}

TextsUpTo(n) == UNION {[1..k -> Kinds] : k \in 0..n}

\* all orders in which the members of a finite set can be listed
Orders(S) == {s \in [1..Cardinality(S) -> S] : \A i, j \in 1..Cardinality(S) : s[i] = s[j] => i = j}

\* ------------------------------------------------------ extraction (pure)
\* one entry of blocks: (block_type, name, lines); lines is the matched text
MakeBlock(content, p) ==
  [block_type |-> content[p], name |-> p, lines |-> <<content[p], p>>]

\* pattern.finditer(content): the matches of one pattern, left to right
RECURSIVE finditer(_, _, _)
finditer(kind, content, p) ==
  IF p > Len(content) THEN <<>>
  ELSE IF content[p] = kind
       THEN <<MakeBlock(content, p)>> \o finditer(kind, content, p + 1)
       ELSE finditer(kind, content, p + 1)

extract_code_blocks(content) ==
  finditer("function", content, 1) \o finditer("struct", content, 1)

\* ------------------------------------------------------- Transform (pure)
\* '\n'.join(lines)
code_block(block) == <<"code", block.lines>>

\* the text LLM.make_doc returns for a code block, when it returns
Transform(code) == <<"doc", code[2]>>

\* ------------------------------------------------------------ paths, files
\* line 119: input_file.suffix in ['.h', '.hpp']
IsHeader(file) == file.suffix \in {".h", ".hpp"}

\* relative_path.with_suffix(s)
with_suffix(file, s) == [stem |-> file.stem, suffix |-> s]

output_file_path(file) == with_suffix(file, ".md")

OutPaths == {[stem |-> s, suffix |-> ".md"] : s \in Stems}

\* output_file_path.exists() and output_file_path.stat().st_size > 0
ExistsNonEmpty(path) == out[path].exists /\ Len(out[path].content) > 0

\* results.sort(key=lambda x: x[0]): insertion into a list sorted by x[0]
RECURSIVE InsertByIndex(_, _)
InsertByIndex(r, sorted) ==
  IF sorted = <<>> THEN <<r>>
  ELSE IF r[1] < Head(sorted)[1] THEN <<r>> \o sorted
       ELSE <<Head(sorted)>> \o InsertByIndex(r, Tail(sorted))

\* mutant: the sort of line 152 is left out
SortResults_unsorted(rs) == rs

RECURSIVE SortResults(_)
SortResults(rs) ==
  IF rs = <<>> THEN <<>>
  ELSE InsertByIndex(rs[Len(rs)], SortResults(SubSeq(rs, 1, Len(rs) - 1)))

\* what the loop of lines 156-159 writes: doc, then '\n\n', per result
RECURSIVE WrittenContent(_)
WrittenContent(rs) ==
  IF rs = <<>> THEN <<>>
  ELSE <<Head(rs)[2], "\n\n">> \o WrittenContent(Tail(rs))

\* the lines of index.md: "## stem", "- [name](target#anchor)", and ""
HeaderLine(file)     == [line |-> "header", stem |-> file.stem]
LinkLine(file, name) == [line |-> "link", name |-> name,
                         target |-> with_suffix(file, ".html"), anchor |-> name]
BlankLine            == [line |-> "blank"]

\* mutant: a link line is written for every block, whatever its type
RECURSIVE LinkLines_everyBlock(_, _)
LinkLines_everyBlock(file, bs) ==
  IF bs = <<>> THEN <<>>
  ELSE <<LinkLine(file, Head(bs).name)>> \o LinkLines_everyBlock(file, Tail(bs))

\* lines 209-212: one link line per block of type 'function'
RECURSIVE LinkLines(_, _)
LinkLines(file, bs) ==
  IF bs = <<>> THEN <<>>
  ELSE (IF Head(bs).block_type = "function"
        THEN <<LinkLine(file, Head(bs).name)>>
        ELSE <<>>) \o LinkLines(file, Tail(bs))

\* lines 203-213: the section make_doc writes to index.md for one file
IndexSection(file) ==
  <<HeaderLine(file)>> \o LinkLines(file, extract_code_blocks(file.text)) \o <<BlankLine>>

\* ------------------------------------------------------------ task states
N == Len(blocks)

\* the future holds a result or an exception
Finished(i) == task[i].st \in {"returned", "raised", "none"}
\* the future holds no (block_index, doc) pair: the exception of line 108,
\* or the None a loop of zero attempts falls through to
GaveUp(i)   == task[i].st \in {"raised", "none"}
Running(i)  == task[i].st \in {"calling", "sleeping"}
Busy        == Cardinality({i \in 1..N : Running(i)})

\* mutant: one thread per submitted task
WorkerFree_always == TRUE

\* ThreadPoolExecutor(max_workers): a work item runs only on a free worker
WorkerFree == Busy < max_workers

\* mutant: the comparison of line 103 is off by one
AttemptsLeft_oneMore(i) == task[i].calls - 1 < max_retries

\* line 103: attempt < self.max_retries - 1, attempt being calls - 1
AttemptsLeft(i) == task[i].calls - 1 < max_retries - 1

\* mutant: the attempt number is returned in the place of block_index
FutureResult_attempt(i) == <<task[i].calls, Transform(code_block(blocks[i]))>>

\* line 101: return block_index, doc
FutureResult(i) == <<i, Transform(code_block(blocks[i]))>>

\* when a task gives up: as the first of the call's tasks to do so, or else
\* before ("early") or after ("late") as_completed has started
GivesUp == IF \A j \in 1..N : ~GaveUp(j) THEN "first"
           ELSE IF pc = "submitted" THEN "early" ELSE "late"

\* a future that finishes is queued for as_completed once it is iterating
Completed(i) == IF pc = "collect" THEN Append(doneQ, i) ELSE doneQ

\* --------------------------------------------------------------- make_doc
\* mutant: index.md is opened with mode 'a'
MakeDoc_append ==
  /\ pc = "idle"
  /\ index' = index
  /\ fi' = 1
  /\ visited' = [i \in 1..Len(files) |-> "pending"]
  /\ pc' = "loop"
  /\ UNCHANGED <<cfgVars, out, ret, procVars>>

\* lines 173-183: make_doc is called; index.md is opened with mode 'w'
MakeDoc ==
  /\ pc = "idle"
  /\ index' = <<>>
  /\ fi' = 1
  /\ visited' = [i \in 1..Len(files) |-> "pending"]
  /\ pc' = "loop"
  /\ UNCHANGED <<cfgVars, out, ret, procVars>>

\* lines 191-193: the output file exists and is not empty
SkipExisting ==
  /\ pc = "loop"
  /\ fi <= Len(files)
  /\ ExistsNonEmpty(output_file_path(files[fi]))
  /\ visited' = [visited EXCEPT ![fi] = "skipped"]
  /\ fi' = fi + 1
  /\ UNCHANGED <<cfgVars, out, index, pc, ret, procVars>>

\* the locals of a process_file call that has returned are gone
Discarded ==
  /\ blocks' = <<>>
  /\ task' = <<>>
  /\ doneQ' = <<>>
  /\ results' = <<>>
  /\ reported' = {}
  /\ ret' = "none"
  /\ outBefore' = out

\* mutant: process_file is called whether or not the output file exists
CallProcessFile_noSkipCheck ==
  /\ pc = "loop"
  /\ fi <= Len(files)
  /\ pc' = "call"
  /\ UNCHANGED <<cfgVars, out, index, fi, visited, ret, procVars>>

\* lines 196-199: process_file is called
CallProcessFile ==
  /\ pc = "loop"
  /\ fi <= Len(files)
  /\ ~ExistsNonEmpty(output_file_path(files[fi]))
  /\ pc' = "call"
  /\ UNCHANGED <<cfgVars, out, index, fi, visited, ret, procVars>>

\* mutant: a False from process_file ends the traversal
AfterProcessFile_abort ==
  /\ pc = "returned"
  /\ IF ret = "True"
     THEN /\ index' = index \o IndexSection(files[fi])
          /\ visited' = [visited EXCEPT ![fi] = "processed"]
          /\ fi' = fi + 1
          /\ pc' = "loop"
     ELSE /\ index' = index
          /\ visited' = [visited EXCEPT ![fi] = "failed"]
          /\ fi' = fi
          /\ pc' = "idle"
  /\ Discarded
  /\ UNCHANGED <<cfgVars, out>>

\* lines 199-214: process_file has returned
AfterProcessFile ==
  /\ pc = "returned"
  /\ IF ret = "True"
     THEN /\ index' = index \o IndexSection(files[fi])
          /\ visited' = [visited EXCEPT ![fi] = "processed"]
     ELSE /\ index' = index
          /\ visited' = [visited EXCEPT ![fi] = "failed"]
  /\ fi' = fi + 1
  /\ pc' = "loop"
  /\ Discarded
  /\ UNCHANGED <<cfgVars, out>>

\* line 215: the traversal is exhausted
Finish ==
  /\ pc = "loop"
  /\ fi > Len(files)
  /\ pc' = "idle"
  /\ UNCHANGED <<cfgVars, out, index, fi, visited, ret, procVars>>

\* ----------------------------------------------------------- process_file
\* lines 119-120
NotHeader ==
  /\ pc = "call"
  /\ ~IsHeader(files[fi])
  /\ blocks' = <<>>
  /\ task' = <<>>
  /\ doneQ' = <<>>
  /\ results' = <<>>
  /\ reported' = {}
  /\ outBefore' = out
  /\ ret' = "False"
  /\ pc' = "returned"
  /\ UNCHANGED <<cfgVars, out, index, fi, visited>>

\* lines 125-138: read, extract, submit one task per block
SubmitBlocks ==
  /\ pc = "call"
  /\ IsHeader(files[fi])
  /\ blocks' = extract_code_blocks(files[fi].text)
  /\ task' = [i \in 1..Len(blocks') |-> [st |-> "queued", calls |-> 0, ok |-> FALSE, gaveUp |-> "no"]]
  /\ doneQ' = <<>>
  /\ results' = <<>>
  /\ reported' = {}
  /\ outBefore' = out
  /\ ret' = "running"
  /\ pc' = "submitted"
  /\ UNCHANGED <<cfgVars, out, index, fi, visited>>

\* line 141: as_completed starts; the futures already finished come first
AsCompleted ==
  /\ pc = "submitted"
  /\ doneQ' \in Orders({i \in 1..N : Finished(i)})
  /\ pc' = "collect"
  /\ UNCHANGED <<cfgVars, out, index, fi, visited, ret, blocks, task,
                 results, reported, outBefore>>

\* mutant: a future that holds None is taken for a result
CollectResult_acceptsNone ==
  /\ pc = "collect"
  /\ doneQ # <<>>
  /\ task[Head(doneQ)].st \in {"returned", "none"}
  /\ results' = Append(results, FutureResult(Head(doneQ)))
  /\ doneQ' = Tail(doneQ)
  /\ UNCHANGED <<cfgVars, out, index, pc, fi, visited, ret, blocks, task,
                 reported, outBefore>>

\* lines 142-146: the next future holds a (block_index, doc) pair
CollectResult ==
  /\ pc = "collect"
  /\ doneQ # <<>>
  /\ task[Head(doneQ)].st = "returned"
  /\ results' = Append(results, FutureResult(Head(doneQ)))
  /\ doneQ' = Tail(doneQ)
  /\ UNCHANGED <<cfgVars, out, index, pc, fi, visited, ret, blocks, task,
                 reported, outBefore>>

\* mutant: the results collected so far are written before returning False
CollectFailure_partial ==
  /\ pc = "collect"
  /\ doneQ # <<>>
  /\ GaveUp(Head(doneQ))
  /\ reported' = {Head(doneQ)}
  /\ doneQ' = <<>>
  /\ pc' = "drain"
  /\ out' = [out EXCEPT ![output_file_path(files[fi])] =
                          FileOf(WrittenContent(SortResults(results)))]
  /\ UNCHANGED <<cfgVars, index, fi, visited, ret, blocks, task, results, outBefore>>

\* mutant: the position in the collection loop is reported, not the
\* index future_to_index holds for the future
CollectFailure_position ==
  /\ pc = "collect"
  /\ doneQ # <<>>
  /\ GaveUp(Head(doneQ))
  /\ reported' = {Len(results) + 1}
  /\ doneQ' = <<>>
  /\ pc' = "drain"
  /\ UNCHANGED <<cfgVars, out, index, fi, visited, ret, blocks, task,
                 results, outBefore>>

\* mutant: the loop goes on after a failure and the last one met is reported
CollectFailure_lastMet ==
  /\ pc = "collect"
  /\ doneQ # <<>>
  /\ GaveUp(Head(doneQ))
  /\ reported' = {doneQ[CHOOSE k \in 1..Len(doneQ) :
                     /\ GaveUp(doneQ[k])
                     /\ \A m \in (k + 1)..Len(doneQ) : ~GaveUp(doneQ[m])]}
  /\ doneQ' = <<>>
  /\ pc' = "drain"
  /\ UNCHANGED <<cfgVars, out, index, fi, visited, ret, blocks, task,
                 results, outBefore>>

CollectFailure ==
  /\ pc = "collect"
  /\ doneQ # <<>>
  /\ GaveUp(Head(doneQ))
  /\ reported' = {Head(doneQ)}
  /\ doneQ' = <<>>
  /\ pc' = "drain"
  /\ UNCHANGED <<cfgVars, out, index, fi, visited, ret, blocks, task,
                 results, outBefore>>

\* mutant: the pool is left with shutdown(wait=False)
Drained_noWait ==
  /\ pc = "drain"
  /\ ret' = "False"
  /\ pc' = "returned"
  /\ UNCHANGED <<cfgVars, out, index, fi, visited, procVars>>

\* line 149 leaving the with block: shutdown(wait=True), then return False
Drained ==
  /\ pc = "drain"
  /\ \A i \in 1..N : Finished(i)
  /\ ret' = "False"
  /\ pc' = "returned"
  /\ UNCHANGED <<cfgVars, out, index, fi, visited, procVars>>

\* lines 152-162: every future was yielded; sort, write, return True
WriteOutput ==
  /\ pc = "collect"
  /\ doneQ = <<>>
  /\ \A i \in 1..N : Finished(i)
  /\ out' = [out EXCEPT ![output_file_path(files[fi])] =
                          FileOf(WrittenContent(SortResults(results)))]
  /\ ret' = "True"
  /\ pc' = "returned"
  /\ UNCHANGED <<cfgVars, index, fi, visited, procVars>>

\* ---------------------------------------------- pool workers, _process_block
\* a free worker takes the oldest queued work item and enters _process_block
StartTask(i) ==
  /\ pc \in {"submitted", "collect", "drain"}
  /\ task[i].st = "queued"
  /\ \A j \in 1..(i - 1) : task[j].st # "queued"
  /\ WorkerFree
  /\ IF max_retries = 0
     THEN /\ task' = [task EXCEPT ![i].st = "none", ![i].gaveUp = GivesUp]
          /\ doneQ' = Completed(i)
     ELSE /\ task' = [task EXCEPT ![i].st = "calling", ![i].calls = 1]
          /\ doneQ' = doneQ
  /\ UNCHANGED <<cfgVars, out, index, pc, fi, visited, ret, blocks,
                 results, reported, outBefore>>

\* mutant: the text is returned from the first attempt only; a later
\* attempt that gets a text falls out of the loop and returns None
TransformReturns_firstOnly(i) ==
  /\ pc \in {"submitted", "collect", "drain"}
  /\ task[i].st = "calling"
  /\ task' = [task EXCEPT ![i].st = IF task[i].calls = 1 THEN "returned" ELSE "none",
                          ![i].ok = TRUE,
                          ![i].gaveUp = IF task[i].calls = 1 THEN "no" ELSE GivesUp]
  /\ doneQ' = Completed(i)
  /\ UNCHANGED <<cfgVars, out, index, pc, fi, visited, ret, blocks,
                 results, reported, outBefore>>

\* lines 100-101: self.llm.make_doc returns
TransformReturns(i) ==
  /\ pc \in {"submitted", "collect", "drain"}
  /\ task[i].st = "calling"
  /\ task' = [task EXCEPT ![i].st = "returned", ![i].ok = TRUE]
  /\ doneQ' = Completed(i)
  /\ UNCHANGED <<cfgVars, out, index, pc, fi, visited, ret, blocks,
                 results, reported, outBefore>>

\* mutant: the next attempt follows a failed one at once, without time.sleep
TransformRaisesRetry_noSleep(i) ==
  /\ pc \in {"submitted", "collect", "drain"}
  /\ task[i].st = "calling"
  /\ AttemptsLeft(i)
  /\ task' = [task EXCEPT ![i].calls = task[i].calls + 1]
  /\ UNCHANGED <<cfgVars, out, index, pc, fi, visited, ret, blocks,
                 doneQ, results, reported, outBefore>>

\* lines 102-105: self.llm.make_doc raises and attempts are left
TransformRaisesRetry(i) ==
  /\ pc \in {"submitted", "collect", "drain"}
  /\ task[i].st = "calling"
  /\ AttemptsLeft(i)
  /\ task' = [task EXCEPT ![i].st = "sleeping"]
  /\ UNCHANGED <<cfgVars, out, index, pc, fi, visited, ret, blocks,
                 doneQ, results, reported, outBefore>>

\* lines 106-108: self.llm.make_doc raises on the last attempt
TransformRaisesLast(i) ==
  /\ pc \in {"submitted", "collect", "drain"}
  /\ task[i].st = "calling"
  /\ ~AttemptsLeft(i)
  /\ task' = [task EXCEPT ![i].st = "raised", ![i].gaveUp = GivesUp]
  /\ doneQ' = Completed(i)
  /\ UNCHANGED <<cfgVars, out, index, pc, fi, visited, ret, blocks,
                 results, reported, outBefore>>

\* line 105 returns: time.sleep is over, the next attempt begins
RetryAfterDelay(i) ==
  /\ pc \in {"submitted", "collect", "drain"}
  /\ task[i].st = "sleeping"
  /\ task' = [task EXCEPT ![i].st = "calling", ![i].calls = task[i].calls + 1]
  /\ UNCHANGED <<cfgVars, out, index, pc, fi, visited, ret, blocks,
                 doneQ, results, reported, outBefore>>

\* ------------------------------------------------------------ specifications
\* a document an earlier call left at the output path
OldFile == FileOf(<<Transform(<<"code", <<"old", 1>>>>), "\n\n">>)

\* one call of process_file(foo.h or foo.c, foo.md), on a header of up to
\* MaxBlocks function declarations, foo.md absent or left by an earlier call
FileInit ==
  /\ max_workers \in 1..MaxWorkers
  /\ max_retries \in 0..MaxRetries
  /\ \E n \in 0..MaxBlocks, sfx \in {".h", ".c"} :
       files = <<[stem |-> "foo", suffix |-> sfx, text |-> [p \in 1..n |-> "function"]]>>
  /\ \E old \in {NoFile, OldFile} :
       out = [p \in OutPaths |-> IF p.stem = "foo" THEN old ELSE NoFile]
  /\ index = <<>>
  /\ pc = "call"
  /\ fi = 1
  /\ visited = <<"pending">>
  /\ blocks = <<>>
  /\ task = <<>>
  /\ doneQ = <<>>
  /\ results = <<>>
  /\ ret = "none"
  /\ reported = {}
  /\ outBefore = out

FileNext ==
  \/ NotHeader
  \/ SubmitBlocks
  \/ AsCompleted
  \/ CollectResult
  \/ CollectFailure
  \/ Drained
  \/ WriteOutput
  \/ \E i \in 1..N : StartTask(i)
  \/ \E i \in 1..N : TransformReturns(i)
  \/ \E i \in 1..N : TransformRaisesRetry(i)
  \/ \E i \in 1..N : TransformRaisesLast(i)
  \/ \E i \in 1..N : RetryAfterDelay(i)

FileSpec == FileInit /\ [][FileNext]_vars

\* one call of process_file where the main thread and the pool workers keep
\* running and every call of self.llm.make_doc returns or raises
FairFileInit == FileInit /\ Len(files[1].text) <= MaxFairBlocks

FairFileSpec == FairFileInit /\ [][FileNext]_vars /\ WF_vars(FileNext)

\* the input directories make_doc is run on: the names a directory can
\* hold, in the order rglob yields them
InputNames ==
  <<[stem |-> "bar", suffix |-> ".h"], [stem |-> "foo", suffix |-> ".c"],
    [stem |-> "foo", suffix |-> ".h"], [stem |-> "foo", suffix |-> ".hpp"]>>

RECURSIVE Listing(_, _)
Listing(S, i) ==
  IF i > Len(InputNames) THEN <<>>
  ELSE (IF i \in S THEN <<InputNames[i]>> ELSE <<>>) \o Listing(S, i + 1)

RECURSIVE TotalDecls(_)
TotalDecls(d) == IF d = <<>> THEN 0 ELSE Len(Head(d).text) + TotalDecls(Tail(d))

\* a directory: at most MaxFiles of the names, each with a text; the text of
\* a file that is no header is never read and is left empty
DirsOf(names) ==
  {d \in [1..Len(names) ->
           [stem : Stems, suffix : Suffixes, text : TextsUpTo(MaxDecls)]] :
     /\ \A i \in 1..Len(names) :
          /\ d[i].stem = names[i].stem
          /\ d[i].suffix = names[i].suffix
          /\ ~IsHeader(d[i]) => d[i].text = <<>>
     /\ TotalDecls(d) <= MaxDecls}

Dirs ==
  UNION {DirsOf(Listing(S, 1)) :
           S \in {T \in SUBSET (1..Len(InputNames)) :
                    Cardinality(T) \in 1..MaxFiles}}

\* DocProcessor() as main.py constructs it, before the first make_doc
Init ==
  /\ max_workers = DefaultMaxWorkers
  /\ max_retries = DefaultMaxRetries
  /\ files \in Dirs
  /\ out = [p \in OutPaths |-> NoFile]
  /\ index = <<>>
  /\ pc = "idle"
  /\ fi = 1
  /\ visited = [i \in 1..Len(files) |-> "pending"]
  /\ blocks = <<>>
  /\ task = <<>>
  /\ doneQ = <<>>
  /\ results = <<>>
  /\ ret = "none"
  /\ reported = {}
  /\ outBefore = out

Next ==
  \/ MakeDoc
  \/ SkipExisting
  \/ CallProcessFile
  \/ AfterProcessFile
  \/ Finish
  \/ NotHeader
  \/ SubmitBlocks
  \/ AsCompleted
  \/ CollectResult
  \/ CollectFailure
  \/ Drained
  \/ WriteOutput
  \/ \E i \in 1..N : StartTask(i)
  \/ \E i \in 1..N : TransformReturns(i)
  \/ \E i \in 1..N : TransformRaisesRetry(i)
  \/ \E i \in 1..N : TransformRaisesLast(i)
  \/ \E i \in 1..N : RetryAfterDelay(i)

Spec == Init /\ [][Next]_vars

\* the directories whose headers declare functions only
FairInit ==
  /\ Init
  /\ \A i \in 1..Len(files) : \A p \in 1..Len(files[i].text) :
       files[i].text[p] = "function"

\* a run of make_doc that has begun keeps taking steps: the main thread and
\* the pool's workers are scheduled, every Transform call returns or raises
\* and every retry delay ends; nothing makes make_doc be called again
FairSpec == FairInit /\ [][Next]_vars /\ WF_vars(pc # "idle" /\ Next)

\* ==================================================================== claims
InProcessFile == pc \in {"submitted", "collect", "drain", "returned"}

\* the file process_file was called on, and its output path
Current    == files[fi]
OutputFile == out[output_file_path(Current)]

\* the document the blocks bs give when transformed in the order of bs
RECURSIVE DocsInOrder(_)
DocsInOrder(bs) ==
  IF bs = <<>> THEN <<>>
  ELSE <<Transform(code_block(Head(bs))), "\n\n">> \o DocsInOrder(Tail(bs))

\* the b-th output of the written document, if there is one
OutputAt(b) ==
  IF OutputFile.exists /\ 2 * b <= Len(OutputFile.content)
  THEN <<OutputFile.content[2 * b - 1], OutputFile.content[2 * b]>>
  ELSE <<>>

\* C1: when process_file has returned and all N block tasks succeeded, the
\* output file holds the Transform outputs of blocks 1..N in ascending index
\* order, each followed by one blank line, whatever order they completed in.
C1_OutputInOriginalOrder ==
  (pc = "returned" /\ IsHeader(Current) /\ \A i \in 1..N : task[i].st = "returned")
    => (ret = "True" /\ OutputFile = FileOf(DocsInOrder(blocks)))

\* C1 witness: three blocks succeeded and the last one was collected first.
C1_Witness ==
  /\ pc = "returned" /\ ret = "True" /\ N = 3
  /\ results # <<>> /\ results[1][1] = 3

\* C2: when process_file returns True, results holds exactly one entry for
\* each index 1..N and nothing else.
C2_OneResultPerIndex ==
  (pc = "returned" /\ ret = "True")
    => /\ Len(results) = N
       /\ \A i \in 1..N : Cardinality({k \in 1..Len(results) : results[k][1] = i}) = 1

\* C2 witness: a successful call on two or more blocks, one of them retried.
C2_Witness ==
  /\ pc = "returned" /\ ret = "True" /\ N >= 2
  /\ \E i \in 1..N : task[i].calls > 1

\* C3: from the call of process_file to its return, the output directory
\* differs from what it was at the call only if every block succeeded; with a
\* block that gave up, the output file is absent or unmodified.
C3_NoWriteUnlessAllSucceeded ==
  InProcessFile =>
    /\ (out # outBefore => (ret = "True" /\ \A i \in 1..N : task[i].st = "returned"))
    /\ ((\E i \in 1..N : GaveUp(i)) => out = outBefore)
    /\ (ret = "False" => out = outBefore)

\* C3 witness: process_file returned False with a result already collected
\* and a document of an earlier call at the output path.
C3_Witness ==
  /\ pc = "returned" /\ ret = "False" /\ results # <<>>
  /\ \E i \in 1..N : task[i].st = "raised"
  /\ OutputFile = OldFile

\* C4: no block gets more than max_retries Transform calls, a block task
\* gives up only after exactly max_retries calls, and when process_file has
\* returned and Transform never returned a text for exactly one block, the
\* return value is False and that block got exactly max_retries calls.
C4_ExactlyRAttempts ==
  \A b \in 1..N :
    /\ task[b].calls <= max_retries
    /\ GaveUp(b) => task[b].calls = max_retries
    /\ (pc = "returned" /\ ~task[b].ok /\ \A i \in (1..N) \ {b} : task[i].ok)
         => (ret = "False" /\ task[b].calls = max_retries)

\* C4 witness: of three blocks, one failed both of its two attempts.
C4_Witness ==
  /\ pc = "returned" /\ ret = "False" /\ N = 3 /\ max_retries = 2
  /\ ~task[2].ok /\ task[2].calls = 2 /\ task[1].ok /\ task[3].ok

\* C5: when process_file has returned, one block got its text on attempt
\* max_retries and every other block on its first attempt, the return value
\* is True, no block was reported as failed, and the block's output stands
\* at the block's own place in the written document.
C5_TransientFailureRecovered ==
  \A b \in 1..N :
    (/\ pc = "returned"
     /\ task[b].ok /\ task[b].calls = max_retries
     /\ \A i \in (1..N) \ {b} : task[i].ok /\ task[i].calls = 1)
      => /\ ret = "True"
         /\ reported = {}
         /\ OutputAt(b) = <<Transform(code_block(blocks[b])), "\n\n">>

\* C5 witness: of three blocks, the second failed once and then succeeded.
C5_Witness ==
  /\ pc = "returned" /\ N = 3 /\ max_retries = 2
  /\ task[2].ok /\ task[2].calls = 2
  /\ task[1].ok /\ task[1].calls = 1 /\ task[3].ok /\ task[3].calls = 1

Min(S) == CHOOSE x \in S : \A y \in S : x <= y

\* C6 as claimed: when process_file has returned False, the block reported
\* as failed is the lowest-indexed block among those whose task raised after
\* its last attempt.
C6_ReportsLowestIndex ==
  (pc = "returned" /\ ret = "False" /\ \E i \in 1..N : task[i].st = "raised")
    => reported = {Min({i \in 1..N : task[i].st = "raised"})}

\* C6 as amended: when process_file has returned False, exactly one block
\* was reported as failed and it is a block whose task gave up after
\* max_retries failed attempts, whatever its index.
C6_ReportsABlockThatGaveUp ==
  (pc = "returned" /\ ret = "False" /\ IsHeader(Current))
    => /\ Cardinality(reported) = 1
       /\ \A r \in reported :
            r \in 1..N /\ GaveUp(r) /\ ~task[r].ok /\ task[r].calls = max_retries

\* C6 witness: block 2 was reported although block 1 gave up as well.
C6_Witness ==
  /\ pc = "returned" /\ ret = "False" /\ reported = {2}
  /\ task[1].st = "raised" /\ task[2].st = "raised"

\* C7: at most max_workers block tasks are in a Transform call or in a retry
\* delay at any time; the other unfinished tasks are queued.
C7_AtMostWRunning ==
  InProcessFile =>
    /\ Busy <= max_workers
    /\ \A i \in 1..N : task[i].st = "queued" \/ Running(i) \/ Finished(i)

\* C7 witness: more blocks than workers, every worker busy, a block queued.
C7_Witness ==
  /\ InProcessFile /\ N > max_workers /\ Busy = max_workers
  /\ \E i \in 1..N : task[i].st = "queued"
  /\ \E i \in 1..N : task[i].st = "sleeping"

\* C8: once process_file has returned False because a block gave up, the
\* run goes on and ends with every file of the traversal skipped, processed
\* or failed; none is left unvisited.
C8_FailureIsNotFatal ==
  (pc = "returned" /\ ret = "False" /\ reported # {})
    ~> (pc = "idle" /\ \A i \in 1..Len(files) : visited[i] # "pending")

\* C8 witness: the run is over, the first file failed and the second one
\* was processed after it.
C8_Witness ==
  /\ pc = "idle" /\ Len(files) = 2
  /\ IsHeader(files[1]) /\ visited[1] = "failed" /\ visited[2] = "processed"

\* C9: when make_doc's loop is at a file whose output file exists and is not
\* empty, its next step moves on to the next file and changes neither the
\* output directory nor the index, extracts no blocks and submits no task.
C9_ExistingOutputIsSkipped ==
  [][(pc = "loop" /\ fi <= Len(files) /\ ExistsNonEmpty(output_file_path(files[fi])))
       => /\ out' = out /\ index' = index
          /\ blocks' = blocks /\ task' = task /\ results' = results
          /\ pc' = "loop" /\ fi' = fi + 1
          /\ visited' = [visited EXCEPT ![fi] = "skipped"]]_vars

\* C9 witness: a header was skipped in a run that processed nothing, so the
\* index of that run is empty while the header's output file is not.
C9_Witness ==
  /\ pc = "idle" /\ Len(files) = 1 /\ IsHeader(files[1])
  /\ visited = <<"skipped">> /\ index = <<>>
  /\ ExistsNonEmpty(output_file_path(files[1]))

\* the offset at which the match of a block begins in the text
StartOf(block) == block.lines[2]
Matches(kind, text) == Cardinality({p \in 1..Len(text) : text[p] = kind})

\* C10: the blocks extracted from a text of M function matches and K struct
\* matches are M + K blocks whose list order is the order in which their
\* matches begin in the text.
C10_BlocksInTextOrder ==
  (InProcessFile /\ IsHeader(Current))
    => /\ N = Matches("function", Current.text) + Matches("struct", Current.text)
       /\ \A i, j \in 1..N : i < j => StartOf(blocks[i]) < StartOf(blocks[j])

\* the header lines of an index, in the order they stand in it
RECURSIVE HeadersOf(_)
HeadersOf(ix) ==
  IF ix = <<>> THEN <<>>
  ELSE (IF Head(ix).line = "header" THEN <<Head(ix).stem>> ELSE <<>>)
         \o HeadersOf(Tail(ix))

\* the stems of the files k..Len(files) this run has processed, in order
RECURSIVE ProcessedStems(_)
ProcessedStems(k) ==
  IF k > Len(files) THEN <<>>
  ELSE (IF visited[k] = "processed" THEN <<files[k].stem>> ELSE <<>>)
         \o ProcessedStems(k + 1)

\* C11: when a run of make_doc is over, the headers of index.md are, in
\* traversal order, those of the files for which process_file returned True
\* in this run, one each; a file that failed, was skipped or is no header
\* has none, and nothing an earlier run wrote is left.
C11_IndexListsThisRunsSuccesses ==
  pc = "idle" =>
    /\ HeadersOf(index) = ProcessedStems(1)
    /\ \A i \in 1..Len(files) : visited[i] = "processed" => IsHeader(files[i])

\* C11 witness: a second run is over; it skipped the first file, which the
\* first run had processed, and processed the second one: the index holds
\* the second file's header only.
C11_Witness ==
  /\ pc = "idle" /\ Len(files) = 2
  /\ visited = <<"skipped", "processed">>
  /\ HeadersOf(index) = <<files[2].stem>>

\* the offsets of the function segments of a text from offset p on
RECURSIVE FunctionOffsets(_, _)
FunctionOffsets(text, p) ==
  IF p > Len(text) THEN <<>>
  ELSE (IF text[p] = "function" THEN <<p>> ELSE <<>>) \o FunctionOffsets(text, p + 1)

\* the names the link lines of an index give, line by line; a header or a
\* blank line gives its kind
RECURSIVE Outline(_)
Outline(ix) ==
  IF ix = <<>> THEN <<>>
  ELSE <<IF Head(ix).line = "link" THEN Head(ix).name ELSE Head(ix).line>>
         \o Outline(Tail(ix))

\* the outline of the sections of the files k..Len(files) this run processed
RECURSIVE ExpectedOutline(_)
ExpectedOutline(k) ==
  IF k > Len(files) THEN <<>>
  ELSE (IF visited[k] = "processed"
        THEN <<"header">> \o FunctionOffsets(files[k].text, 1) \o <<"blank">>
        ELSE <<>>) \o ExpectedOutline(k + 1)

\* C12: when a run of make_doc is over, the section of each processed file
\* is its header, then one link line per function block of the file, in
\* extraction order, then a blank line; no line stands for a struct block.
C12_LinksForFunctionsOnly ==
  pc = "idle" =>
    /\ Outline(index) = ExpectedOutline(1)
    /\ \A k \in 1..Len(index) :
         index[k].line = "link" =>
           \E i \in 1..Len(files) :
             /\ visited[i] = "processed"
             /\ index[k].target = with_suffix(files[i], ".html")
             /\ index[k].anchor = index[k].name
             /\ index[k].name \in 1..Len(files[i].text)
             /\ files[i].text[index[k].name] = "function"

\* C12 witness: a header of a struct followed by a function was processed
\* and its section is the header, the function's link and a blank line.
C12_Witness ==
  /\ pc = "idle" /\ Len(files) = 1
  /\ files[1].text = <<"struct", "function">>
  /\ visited = <<"processed">>
  /\ Outline(index) = <<"header", 2, "blank">>

\* a step of block i's task, as far as the task itself shows it
Attempt(i)  == task[i].st # "calling" /\ task'[i].st = "calling"
Delay(i)    == task[i].st # "sleeping" /\ task'[i].st = "sleeping"
TaskStep(i) == task'[i] # task[i]

\* C13: the attempts on one block follow one another: the first begins
\* when the task starts, each later one begins when the delay after the
\* attempt before it is over, and counts one more; a delay begins only when
\* an attempt fails and is not the last one, so none follows the last
\* attempt; a step of one block's task changes no other block's task, and
\* what a failed attempt is followed by depends on the block's own count of
\* attempts alone.
C13_RetriesAreLocal ==
  /\ [](InProcessFile =>
          \A i \in 1..N :
            /\ task[i].st = "sleeping" => task[i].calls \in 1..(max_retries - 1)
            /\ task[i].st = "calling" => task[i].calls \in 1..max_retries
            /\ task[i].st = "raised" => task[i].calls = max_retries)
  /\ [][InProcessFile /\ task' # <<>> =>
          \A i \in 1..N :
            /\ task'[i].calls # task[i].calls => Attempt(i)
            /\ Attempt(i) =>
                 /\ task[i].st \in {"queued", "sleeping"}
                 /\ task'[i].calls = task[i].calls + 1
            /\ Delay(i) =>
                 /\ task[i].st = "calling"
                 /\ task'[i].calls = task[i].calls
                 /\ task[i].calls < max_retries
            /\ task[i].st = "calling" /\ TaskStep(i) /\ ~task'[i].ok =>
                 task'[i].st = IF task[i].calls < max_retries
                               THEN "sleeping" ELSE "raised"
            /\ TaskStep(i) => \A j \in 1..N : j # i => ~TaskStep(j)]_vars

\* C13 witness: process_file has met the failure of one block, which made
\* all its attempts, while another block is in the delay after its first
\* failed attempt and a third one has not failed at all.
C13_Witness ==
  /\ pc = "drain"
  /\ \E i, j, k \in 1..N :
       /\ task[i].st = "raised" /\ task[i].calls = max_retries
       /\ task[j].st = "sleeping" /\ task[j].calls = 1
       /\ task[k].st = "returned" /\ task[k].calls = 1

\* what C14 says of a call of process_file whatever block it reports: one
\* block at most is reported and the report is not changed afterwards; the
\* block made max_retries attempts, all failed; every future met before it
\* held a result; the results collected are not written
ReportsOnce ==
  [][reported # {} => reported' = reported]_vars

ReportedGaveUp ==
  /\ Cardinality(reported) <= 1
  /\ \A r \in reported :
       /\ GaveUp(r) /\ ~task[r].ok /\ task[r].calls = max_retries
       /\ \A k \in 1..Len(results) :
            results[k][1] # r /\ task[results[k][1]].st = "returned"
  /\ (pc = "returned" /\ ret = "False") => out = outBefore

\* C14 as stated: the block process_file reports is the one that was the
\* first to exhaust its retries.
C14_ReportsFirstExhausted ==
  (InProcessFile /\ max_retries > 0) =>
    /\ ReportedGaveUp
    /\ \A r \in reported : task[r].gaveUp = "first"

\* C14 amended: the block process_file reports is the first exhausted one
\* as_completed yields; it is the first to have exhausted its retries
\* unless it did so before as_completed started, as one of several: those
\* are yielded in any order.
C14_ReportsFirstYielded ==
  /\ [](InProcessFile =>
          /\ ReportedGaveUp
          /\ \A r \in reported :
               /\ task[r].gaveUp \in {"first", "early"}
               /\ task[r].gaveUp = "early" =>
                    \E j \in 1..N : j # r /\ task[j].gaveUp = "first")
  /\ ReportsOnce

\* C14 witness: process_file returned False for a block that exhausted its
\* retries after another one, both before as_completed started, and after
\* the result of a third block had been collected.
C14_Witness ==
  /\ pc = "returned" /\ ret = "False" /\ max_retries > 0
  /\ results # <<>>
  /\ \E r \in reported : task[r].gaveUp = "early" /\ task[r].st = "raised"

\* the calls of self.llm.make_doc made so far for the blocks k..N
RECURSIVE TransformCalls(_)
TransformCalls(k) == IF k > N THEN 0 ELSE task[k].calls + TransformCalls(k + 1)

\* C15: every call of process_file returns, True or False; it makes at most
\* N * max_retries calls of self.llm.make_doc in all; and when it returns,
\* on the False path too, each of the N submitted tasks has run to its end:
\* none is left queued, in flight or cancelled.
C15_TerminatesAfterDraining ==
  /\ <>(pc = "returned" /\ ret \in {"True", "False"})
  /\ [](InProcessFile =>
          /\ TransformCalls(1) <= N * max_retries
          /\ pc = "returned" =>
               \A i \in 1..N :
                 /\ Finished(i)
                 /\ task[i].st = "none" \/ task[i].calls >= 1)

\* C15 witness: process_file returned False after each of several blocks had
\* made every one of its attempts, N * max_retries calls in all.
C15_Witness ==
  /\ pc = "returned" /\ ret = "False"
  /\ N >= 2 /\ max_retries >= 2
  /\ TransformCalls(1) = N * max_retries

\* the headers of the input directory that declare nothing
EmptyHeaders == {i \in 1..Len(files) : IsHeader(files[i]) /\ files[i].text = <<>>}

\* C16: a call of process_file on a header without any block submits no
\* task, returns True and leaves an empty output file; make_doc then writes
\* the header line of the file and no link line; and as the output file is
\* empty the file is never skipped: each run processes it again.
C16_EmptyHeaderProcessedEveryRun ==
  /\ (pc = "returned" /\ fi \in EmptyHeaders) =>
       /\ N = 0 /\ task = <<>>
       /\ ret = "True"
       /\ OutputFile = FileOf(<<>>)
  /\ \A i \in EmptyHeaders :
       /\ visited[i] \in {"pending", "processed"}
       /\ (pc = "idle" /\ visited[i] = "processed") =>
            \E k \in 1..(Len(index) - 1) :
              /\ index[k] = HeaderLine(files[i])
              /\ index[k + 1] = BlankLine

\* the headers a finished run skipped or processed
Documented == {i \in 1..Len(files) :
                 IsHeader(files[i]) /\ visited[i] \in {"skipped", "processed"}}

\* C17: when a run is over, the output file of every header that was
\* processed, or skipped for having an output file, holds the outputs of
\* that header's own blocks.
C17_ArtifactOfOwnBlocks ==
  pc = "idle" =>
    \A i \in Documented :
      out[output_file_path(files[i])] =
        FileOf(DocsInOrder(extract_code_blocks(files[i].text)))

\* C18: with max_retries = 0 and one block or more, no task calls
\* self.llm.make_doc and none returns a (block_index, doc) pair; no result
\* is collected, nothing is written, and process_file returns False for a
\* block it reports, never True.
C18_ZeroRetriesFails ==
  (InProcessFile /\ max_retries = 0 /\ N >= 1) =>
    /\ \A i \in 1..N :
         /\ task[i].calls = 0 /\ ~task[i].ok
         /\ task[i].st \in {"queued", "none"}
    /\ results = <<>>
    /\ out = outBefore
    /\ ret # "True"
    /\ pc = "returned" =>
         /\ ret = "False"
         /\ \E r \in 1..N : reported = {r} /\ task[r].st = "none"

\* C18 witness: with max_retries = 0, process_file returned False on a
\* header of two blocks or more, every task over without a call.
C18_Witness ==
  /\ pc = "returned" /\ ret = "False"
  /\ max_retries = 0 /\ N >= 2
  /\ \A i \in 1..N : task[i].st = "none" /\ task[i].calls = 0

====
